---- MODULE Spec2Model ----
(***************************************************************************)
(* Capo: construction-project task scheduling.                             *)
(*                                                                         *)
(* Three parts of the repository are modelled:                             *)
(*   - the project screen's conflict detector and task creation            *)
(*     (checkConflicts, checkDependencyConflicts, handleCreateTask),       *)
(*   - the cloud function processQuote (quote -> tasks extraction),        *)
(*   - the WhatsApp notification workflow (checkDailyTasks and             *)
(*     handleButtonResponse).                                              *)
(*                                                                         *)
(* Dates are day numbers; an instant is a number of hours since 00:00 UTC  *)
(* of day 0.  A missing date ('' / undefined) is NoDate.                   *)
(***************************************************************************)
EXTENDS Integers, Sequences, FiniteSets, TLC

VARIABLES
    \* ---- project screen (src/unnamed/part_007) ----
    tasks,          \* the screen's task list, in snapshot order
    tz,             \* the device's time zone: UTC offset before/after the DST change
    conflict,       \* handleCreateTask's local `conflict` at its last call (0 = null)
    depConflict,    \* handleCreateTask's local `depConflict` at its last call (0 = null)
    depWarning,     \* the dependency warning rendered in the new-task form (0 = none)
    attempts,       \* history: calls of handleCreateTask with a title made while the store accepts writes
    \* ---- processQuote (src/functions/index.js) ----
    openaiKey,      \* whether process.env.OPENAI_API_KEY is set
    docs,           \* the tasks collection: document id -> record (status "none": no document)
    aiLog,          \* the ai_logs collection: per request document, its events in append order
    snap,           \* per document: event.data, the document as it was created
    pcq,            \* per document: the position of the processQuote run its creation triggered
    parsed,         \* per run: the local `tasks` (parsed.tasks || [])
    staged,         \* per run: the task records staged in the write batch
    aiCalls,        \* history: per request document, the windows the capability was called with
    \* ---- notification workflow (src/functions/index.js) ----
    wtasks,         \* the tasks the workflow reads: task id -> record
    ctx,            \* whatsapp_context: worker phone -> context document (NoCtx when absent)
    hpc,            \* per handler invocation: its position in handleButtonResponse
    hsnap,          \* per handler invocation: the context it read (contextDoc.data())
    hreply,         \* per handler invocation: the payload it is handling
    hresult,        \* per handler invocation: the value it returned
    sent,           \* per worker: the template of the last message sent ("": none)
    advanced,       \* history: per worker, advancing replies handled since the cursor was reset
    results         \* per worker: its status in the results of the last daily run ("": none)

screenVars == <<tasks, tz, conflict, depConflict, depWarning, attempts>>
quoteVars  == <<openaiKey, docs, snap, aiLog, pcq, parsed, staged, aiCalls>>
notifyVars == <<wtasks, ctx, hpc, hsnap, hreply, hresult, sent, advanced, results>>
vars       == <<screenVars, quoteVars, notifyVars>>

(***************************************************************************)
(* Bounds of the model.                                                    *)
(***************************************************************************)
MaxDay == 2          \* start dates range over days 0..MaxDay
MaxDur == 2          \* durations range over "0".."MaxDur" days
DstDay == 1          \* the day on which the zone's offset changes (at 01:00 UTC)

ScreenIds == {1, 2}  \* document ids the store hands out to the screen's new tasks
NoDate    == -1      \* '' or undefined in a date field

Days      == 0 .. MaxDay
Dates     == Days \cup {NoDate}

(***************************************************************************)
(* Durations are strings in the form state and in the stored record        *)
(* (newTaskDuration = diffDays.toString(), '' when unset).                 *)
(***************************************************************************)
DigitStr  == <<"0", "1", "2", "3", "4", "5">>
DurStrs   == {DigitStr[i + 1] : i \in 0 .. MaxDur}
Durations == DurStrs \cup {""}

\* parseInt(duration) || 0
ParseIntOr0(s) ==
    IF s \in DurStrs THEN CHOOSE i \in 0 .. MaxDur : DigitStr[i + 1] = s ELSE 0

(***************************************************************************)
(* Phone numbers.  RawUS is a 10-digit contact number, RawPT a 12-digit    *)
(* one; formatPhoneNumber strips non-digits and prefixes "+ 1" to 10       *)
(* digits and "+" otherwise, so it is not idempotent on 10-digit numbers.  *)
(***************************************************************************)
RawUS    == "2125550101"
RawPT    == "351912345678"
SpacedUS == "+ 12125550101"
PlainUS  == "+12125550101"
PlainPT  == "+351912345678"

formatPhoneNumber(phone) ==
    CASE phone = ""       -> ""
      [] phone = RawUS    -> SpacedUS
      [] phone = SpacedUS -> PlainUS
      [] phone = PlainUS  -> PlainUS
      [] phone = RawPT    -> PlainPT
      [] phone = PlainPT  -> PlainPT

\* newTaskPhone: '' or what handlePickContact stored (a contact number formatted once)
FormPhones == {"", formatPhoneNumber(RawUS), formatPhoneNumber(RawPT)}

(***************************************************************************)
(* JavaScript Date.  new Date("YYYY-MM-DD") is 00:00 UTC of that day;      *)
(* getDate/setDate work in the device's local time, so adding days keeps   *)
(* the local wall-clock time and moves the instant by the change of the    *)
(* zone's offset when a DST change lies in between.                        *)
(***************************************************************************)
Zones == { [before |-> 0, after |-> 0],     \* no DST change in range
           [before |-> 1, after |-> 0],     \* clocks go back (e.g. Lisbon, October)
           [before |-> 0, after |-> 1] }    \* clocks go forward (e.g. Lisbon, March)

DstTransition == 24 * DstDay + 1

NewDate(day) == 24 * day

LocalOffset(t) == IF t < DstTransition THEN tz.before ELSE tz.after

\* the instant whose local wall-clock time is l (the earlier one when l occurs twice)
FromLocal(l) ==
    LET t1 == l - tz.before
        t2 == l - tz.after
    IN  IF t1 < DstTransition THEN t1
        ELSE IF t2 >= DstTransition THEN t2 ELSE t1

\* d = new Date(t); d.setDate(d.getDate() + days)
AddDays(t, days) == FromLocal(t + LocalOffset(t) + 24 * days)

(***************************************************************************)
(* Project screen: conflict detector (src/unnamed/part_007).               *)
(* A task of the screen's list is a record                                 *)
(*   [id, assigneePhone, status, startDate, duration];                     *)
(* the fields no modelled operation reads (title, description, dueDate,    *)
(* dependencies, createdAt, isNew) are left out.  Operators return the id  *)
(* of the task they found, 0 for null.                                     *)
(***************************************************************************)
TaskIndexes == 1 .. Len(tasks)

\* Array.prototype.find: the first element (lowest index) satisfying the test
FirstOf(hits) == IF hits = {} THEN 0 ELSE CHOOSE i \in hits : \A j \in hits : i <= j

\* mutant of ConflictTest: the status test is missing, so done tasks are scanned
ConflictTest_ScansDone(t, phone, start, end) ==
    IF t.assigneePhone # phone THEN FALSE
    ELSE IF t.startDate = NoDate \/ t.duration = "" THEN FALSE
    ELSE LET tStart == NewDate(t.startDate)
             tEnd   == AddDays(tStart, ParseIntOr0(t.duration))
         IN  start < tEnd /\ end > tStart

\* the callback of tasks.find in checkConflicts
ConflictTest(t, phone, start, end) ==
    IF t.assigneePhone # phone \/ t.status = "done" THEN FALSE
    ELSE IF t.startDate = NoDate \/ t.duration = "" THEN FALSE
    ELSE LET tStart == NewDate(t.startDate)
             tEnd   == AddDays(tStart, ParseIntOr0(t.duration))
         IN  start < tEnd /\ end > tStart

checkConflicts(phone, startDate, duration) ==
    IF phone = "" \/ startDate = NoDate \/ duration = "" THEN 0
    ELSE LET start == NewDate(startDate)
             days  == ParseIntOr0(duration)
             end   == AddDays(start, days)
             i     == FirstOf({k \in TaskIndexes : ConflictTest(tasks[k], phone, start, end)})
         IN  IF i = 0 THEN 0 ELSE tasks[i].id

\* tasks.find(t => t.id === depId): index of the first task with that id, 0 if none
FindById(depId) == FirstOf({k \in TaskIndexes : tasks[k].id = depId})

\* one iteration of the for loop of checkDependencyConflicts
DepBlocks(start, depId) ==
    LET k == FindById(depId)
    IN  IF k = 0 THEN FALSE
        ELSE LET depTask == tasks[k]
             IN  IF depTask.startDate = NoDate \/ depTask.duration = "" THEN FALSE
                 ELSE start < AddDays(NewDate(depTask.startDate), ParseIntOr0(depTask.duration))

RECURSIVE DepLoop(_, _, _)
DepLoop(start, dependencyIds, i) ==
    IF i > Len(dependencyIds) THEN 0
    ELSE IF DepBlocks(start, dependencyIds[i]) THEN tasks[FindById(dependencyIds[i])].id
    ELSE DepLoop(start, dependencyIds, i + 1)

\* mutant of checkDependencyConflicts: the loop runs over the task list and returns the
\* first listed task that is a blocking dependency
checkDependencyConflicts_ListOrder(startDate, dependencyIds) ==
    IF startDate = NoDate \/ Len(dependencyIds) = 0 THEN 0
    ELSE LET k == FirstOf({j \in TaskIndexes :
                              /\ \E i \in DOMAIN dependencyIds : dependencyIds[i] = tasks[j].id
                              /\ DepBlocks(NewDate(startDate), tasks[j].id)})
         IN  IF k = 0 THEN 0 ELSE tasks[k].id

checkDependencyConflicts(startDate, dependencyIds) ==
    IF startDate = NoDate \/ Len(dependencyIds) = 0 THEN 0
    ELSE DepLoop(NewDate(startDate), dependencyIds, 1)

(***************************************************************************)
(* handleCreateTask.  id is the document id addDoc allocates, ok whether   *)
(* addDoc resolves; the written record reaches the list through the        *)
(* onSnapshot listener, appended here in the same step.                    *)
(***************************************************************************)
NewTaskRecord(id, phone, startDate, duration) ==
    [id            |-> id,
     assigneePhone |-> formatPhoneNumber(phone),
     status        |-> "backlog",
     startDate     |-> startDate,
     duration      |-> duration]

\* the list is rebuilt from the query snapshot, which is ordered by document id, so a
\* new document (random id) lands at any position pos of the list
InsertAt(seq, pos, e) == SubSeq(seq, 1, pos - 1) \o <<e>> \o SubSeq(seq, pos, Len(seq))

\* mutant of handleCreateTask: a reported conflict returns before addDoc
handleCreateTask_BlockedByConflict(id, pos, title, phone, startDate, duration, deps, ok) ==
    /\ id = Len(tasks) + 1
    /\ pos \in 1 .. Len(tasks) + 1
    /\ IF title = ""
       THEN UNCHANGED screenVars
       ELSE /\ conflict'    = checkConflicts(phone, startDate, duration)
            /\ depConflict' = checkDependencyConflicts(startDate, deps)
            /\ attempts'    = IF ok THEN attempts + 1 ELSE attempts
            /\ IF ok /\ conflict' = 0 /\ depConflict' = 0
               THEN tasks' = InsertAt(tasks, pos, NewTaskRecord(id, phone, startDate, duration))
               ELSE UNCHANGED tasks
            /\ UNCHANGED <<tz, depWarning>>
    /\ UNCHANGED <<quoteVars, notifyVars>>

handleCreateTask(id, pos, title, phone, startDate, duration, deps, ok) ==
    /\ id = Len(tasks) + 1
    /\ pos \in 1 .. Len(tasks) + 1
    /\ IF title = ""
       THEN UNCHANGED screenVars
       ELSE /\ conflict'    = checkConflicts(phone, startDate, duration)
            /\ depConflict' = checkDependencyConflicts(startDate, deps)
            /\ IF ok
               THEN /\ tasks'    = InsertAt(tasks, pos, NewTaskRecord(id, phone, startDate, duration))
                    /\ attempts' = attempts + 1
               ELSE UNCHANGED <<tasks, attempts>>
            /\ UNCHANGED <<tz, depWarning>>
    /\ UNCHANGED <<quoteVars, notifyVars>>

\* moveTask(task, newStatus): the task at index k of the list gets newStatus
moveTask(k, newStatus) ==
    /\ k \in TaskIndexes
    /\ tasks[k].status # newStatus
    /\ tasks' = [tasks EXCEPT ![k].status = newStatus]
    /\ UNCHANGED <<tz, conflict, depConflict, depWarning, attempts>>
    /\ UNCHANGED <<quoteVars, notifyVars>>

\* the new-task form renders checkDependencyConflicts(newTaskStartDate, newTaskDependencies)
renderDependencyWarning(startDate, deps) ==
    /\ depWarning' = checkDependencyConflicts(startDate, deps)
    /\ UNCHANGED <<tasks, tz, conflict, depConflict, attempts>>
    /\ UNCHANGED <<quoteVars, notifyVars>>

(***************************************************************************)
(* Specifications of the project screen.                                   *)
(***************************************************************************)
MaxDeps  == 2
DepIds   == ScreenIds \cup {3}        \* 3: a dependency id no task of the list has
Titles   == {"", "Install drywall"}
AllPhones == {"", SpacedUS, PlainUS, PlainPT}
MoveStatuses == {"backlog", "done"}

\* duplicate-free id lists, as the dependency picker builds them
DepLists ==
    {d \in UNION {[1 .. n -> DepIds] : n \in 0 .. MaxDeps} :
        \A i, j \in DOMAIN d : i # j => d[i] # d[j]}

\* the screen starts with an empty list; the functions' state is idle

(***************************************************************************)
(* Claims about the conflict detector.  The claims speak of whole days:    *)
(* a task occupies [startDate, startDate + duration).                      *)
(***************************************************************************)
Scheduled(t) == t.startDate # NoDate /\ t.duration # ""
DayEnd(t)    == t.startDate + ParseIntOr0(t.duration)

\* the tasks checkConflicts scans for phone, as the code selects them
ScanSet(phone) ==
    {k \in TaskIndexes :
        tasks[k].assigneePhone = phone /\ tasks[k].status # "done" /\ Scheduled(tasks[k])}

\* C4 (as claimed): checkConflicts reports a conflict iff some scanned task satisfies
\* candidateStart < otherEnd /\ candidateEnd > otherStart in whole days; touching
\* intervals never conflict.
C4_OverlapIffDays ==
    \A phone \in AllPhones \ {""}, sd \in Days, du \in DurStrs :
        (checkConflicts(phone, sd, du) # 0)
            <=> \E k \in ScanSet(phone) :
                    /\ sd < DayEnd(tasks[k])
                    /\ sd + ParseIntOr0(du) > tasks[k].startDate

\* the overlap test on instants, as the code computes them
InstantOverlap(t, sd, du) ==
    /\ t.startDate # NoDate
    /\ NewDate(sd) < AddDays(NewDate(t.startDate), ParseIntOr0(t.duration))
    /\ AddDays(NewDate(sd), ParseIntOr0(du)) > NewDate(t.startDate)

\* C5 (as claimed): the scanned tasks are the same worker's tasks, minus the done ones,
\* minus those lacking both a start date and a duration.
C5_ScanSetLackingBoth ==
    \A phone \in AllPhones \ {""}, sd \in Days, du \in DurStrs :
        (checkConflicts(phone, sd, du) # 0)
            <=> \E k \in TaskIndexes :
                    /\ tasks[k].assigneePhone = phone
                    /\ tasks[k].status # "done"
                    /\ ~(tasks[k].startDate = NoDate /\ tasks[k].duration = "")
                    /\ InstantOverlap(tasks[k], sd, du)

\* C5 (amended): the scanned tasks are the same worker's tasks, minus the done ones,
\* minus those lacking a start date or a duration; the task returned is the first
\* scanned task that overlaps, so it is never done, never another worker's and never
\* unscheduled.
C5_ScanSet ==
    \A phone \in AllPhones, sd \in Dates, du \in Durations :
        LET r    == checkConflicts(phone, sd, du)
            hits == IF phone = "" \/ sd = NoDate \/ du = "" THEN {}
                    ELSE {k \in ScanSet(phone) : InstantOverlap(tasks[k], sd, du)}
        IN  /\ (r # 0) <=> (hits # {})
            /\ r # 0 => \E k \in hits :
                           /\ tasks[k].id = r
                           /\ \A j \in hits : k <= j
                           /\ tasks[k].status # "done"
                           /\ tasks[k].assigneePhone = phone
                           /\ Scheduled(tasks[k])

\* a state where the scan set decides: handleCreateTask reported a conflict with a
\* task while an overlapping done task, another worker's task or an unscheduled task
\* stands before it in the list
C5_Witness ==
    /\ Len(tasks) = 2
    /\ conflict # 0
    /\ \E k \in TaskIndexes :
          /\ tasks[k].id = conflict
          /\ tasks[k].status # "done"
          /\ tasks[k].assigneePhone = PlainPT
          /\ Scheduled(tasks[k])
    /\ \E sd \in Days, du \in DurStrs : checkConflicts(PlainPT, sd, du) = 0
    /\ \E sd \in Days, du \in DurStrs : checkConflicts(PlainPT, sd, du) # 0

\* C6 (as claimed): checkDependencyConflicts returns a dependency exactly when one
\* resolves to a dated task with candidateStart < dependencyEnd in whole days;
\* candidateStart = dependencyEnd is not a conflict.
C6_DepIffDays ==
    \A sd \in Days, deps \in DepLists :
        (checkDependencyConflicts(sd, deps) # 0)
            <=> \E i \in DOMAIN deps :
                    LET k == FindById(deps[i])
                    IN  k # 0 /\ Scheduled(tasks[k]) /\ sd < DayEnd(tasks[k])

\* C7: the dependency returned is the first id, in the order supplied, that blocks
\* on its own; null when none does.
C7_FirstBlockingInSuppliedOrder ==
    \A sd \in Dates, deps \in DepLists :
        LET blocking == {i \in DOMAIN deps : checkDependencyConflicts(sd, <<deps[i]>>) # 0}
        IN  checkDependencyConflicts(sd, deps)
                = IF blocking = {} THEN 0 ELSE deps[FirstOf(blocking)]

\* two dependencies block, the list holds them in the order opposite to the one
\* supplied, and the rendered warning names one of them
C7_Witness ==
    /\ Len(tasks) = 2
    /\ tasks[1].id = 2
    /\ depWarning = 1
    /\ \E sd \in Days :
          /\ checkDependencyConflicts(sd, <<1>>) = 1
          /\ checkDependencyConflicts(sd, <<2>>) = 2
          /\ checkDependencyConflicts(sd, <<1, 2>>) = 1
          /\ checkDependencyConflicts(sd, <<2, 1>>) = 2

\* C8: every call of handleCreateTask with a title, made while the store accepts
\* writes, added its record to the list, whatever the conflict checks returned.
C8_ConflictsAdvisory ==
    /\ attempts = Len(tasks)
    /\ \A k \in TaskIndexes : tasks[k].id \in 1 .. attempts

\* handleCreateTask found a schedule conflict and a dependency conflict and wrote the task
C8_Witness ==
    /\ Len(tasks) = 2
    /\ attempts = 2
    /\ conflict # 0
    /\ depConflict # 0

(***************************************************************************)
(* processQuote (src/functions/index.js): the extraction pipeline.         *)
(*                                                                         *)
(* Document ids: <<r, 0>> is a document a client created, <<r, i>> with    *)
(* i >= 1 the document db.collection('tasks').doc() allocates for the i-th *)
(* task of the run that <<r, 0>> triggered.  Every created document        *)
(* triggers processQuote (onDocumentCreated on tasks/{taskId}).            *)
(***************************************************************************)
MaxExtract == 2                 \* descriptors in one capability response
Today      == 5                 \* the day the function runs (new Date())

RequestIds == {1, 2}
DocIds     == {<<r, i>> : r \in RequestIds, i \in 0 .. MaxExtract}
Req(r)     == <<r, 0>>

Description(kind, count, reason) == [kind |-> kind, count |-> count, reason |-> reason]

NoDoc ==
    [status |-> "none", assignee |-> "", quoteUrl |-> FALSE, title |-> "",
     description |-> Description("none", 0, ""), originalQuoteId |-> 0, isNew |-> FALSE,
     startDate |-> NoDate, dueDate |-> NoDate,
     projectStartDate |-> NoDate, projectDeadline |-> NoDate]

\* a task descriptor of the capability's JSON; complete: title, startDate and dueDate
\* are all present (batch.set rejects a document with an undefined field)
Descriptors ==
    { [complete |-> TRUE,  startDate |-> 10, dueDate |-> 12],
      [complete |-> TRUE,  startDate |-> 10, dueDate |-> 50],
      [complete |-> FALSE, startDate |-> 10, dueDate |-> NoDate] }

DescriptorLists == UNION {[1 .. n -> Descriptors] : n \in 0 .. MaxExtract}

\* what openai.chat.completions.create does: it rejects ("throw"), or resolves with
\* content that is not JSON ("garbage"), JSON without a tasks key ("no_tasks"), JSON
\* whose tasks is not an array ("not_array"), or JSON with an array of descriptors
Outcomes ==
    {[kind |-> k, tasks |-> << >>] : k \in {"throw", "garbage", "no_tasks", "not_array"}}
        \cup {[kind |-> "array", tasks |-> l] : l \in DescriptorLists}

LogEntry(step, type) == [step |-> step, type |-> type]

\* logAIEvent(projectId, taskId, step, detail, type)
logAIEvent(log, id, step, type) == [log EXCEPT ![id] = Append(@, LogEntry(step, type))]

\* the client-side creation of a task document (upload screens, task form)
CreateDoc(r, status, assignee, quoteUrl, projectStart, projectEnd) ==
    /\ docs[Req(r)].status = "none"
    /\ LET created == [NoDoc EXCEPT !.status = status, !.assignee = assignee,
                                    !.quoteUrl = quoteUrl, !.title = "Processing Quote...",
                                    !.description = Description("pending", 0, ""),
                                    !.projectStartDate = projectStart,
                                    !.projectDeadline = projectEnd]
       IN  /\ docs' = [docs EXCEPT ![Req(r)] = created]
           /\ snap' = [snap EXCEPT ![Req(r)] = created]
    /\ pcq' = [pcq EXCEPT ![Req(r)] = "created"]
    /\ UNCHANGED <<openaiKey, aiLog, parsed, staged, aiCalls>>
    /\ UNCHANGED <<screenVars, notifyVars>>

\* mutant of UpdateDoc: the update is delivered to processQuote as a creation would be
UpdateDoc_Retriggers(id, newStatus) ==
    /\ docs[id].status \notin {"none", newStatus}
    /\ docs' = [docs EXCEPT ![id].status = newStatus]
    /\ snap' = [snap EXCEPT ![id] = docs'[id]]
    /\ pcq' = [pcq EXCEPT ![id] = "created"]
    /\ UNCHANGED <<openaiKey, aiLog, parsed, staged, aiCalls>>
    /\ UNCHANGED <<screenVars, notifyVars>>

\* a client updates a field of an existing task document (moveTask: its status); the
\* update is delivered to notifyAssignee, which returns as the assignee is the same,
\* and not to processQuote, which is registered for creations only
UpdateDoc(id, newStatus) ==
    /\ docs[id].status \notin {"none", newStatus}
    /\ docs' = [docs EXCEPT ![id].status = newStatus]
    /\ UNCHANGED <<openaiKey, snap, aiLog, pcq, parsed, staged, aiCalls>>
    /\ UNCHANGED <<screenVars, notifyVars>>

\* mutant of TriggerMatches: the assignee marker is not tested
TriggerMatches_IgnoresAssignee(data) ==
    ~(data.status # "backlog" \/ ~data.quoteUrl)

\* the trigger predicate, negated in the code: the run returns unless it holds
TriggerMatches(data) ==
    ~(data.status # "backlog" \/ ~data.quoteUrl \/ data.assignee # "AI_BOT")

\* the window passed to the capability
ResolveWindow(data) ==
    [start    |-> IF data.projectStartDate # NoDate THEN data.projectStartDate ELSE Today,
     deadline |-> IF data.projectDeadline # NoDate THEN data.projectDeadline ELSE Today + 30]

\* mutant of CatchError: the message is written but the status is left as it was
CatchError_KeepsStatus(id, reason) ==
    /\ docs' = [docs EXCEPT ![id].description = Description("failed", 0, reason)]
    /\ pcq' = [pcq EXCEPT ![id] = "failed"]

\* the catch block: the request becomes error with the message, and the error is logged
CatchError(id, reason) ==
    /\ docs' = [docs EXCEPT ![id].description = Description("failed", 0, reason),
                            ![id].status = "error"]
    /\ pcq' = [pcq EXCEPT ![id] = "failed"]

\* mutant of processQuoteStart: a missing key is handled as a failure of the run
processQuoteStart_MissingKeyIsError(id) ==
    /\ pcq[id] = "created"
    /\ LET data == snap[id]
       IN  IF ~TriggerMatches(data)
           THEN /\ pcq' = [pcq EXCEPT ![id] = "ignored"]
                /\ UNCHANGED <<docs, aiLog, aiCalls>>
           ELSE IF ~openaiKey
           THEN /\ docs' = [docs EXCEPT
                              ![id].description = Description("missing_key", 0, ""),
                              ![id].status = "error"]
                /\ pcq' = [pcq EXCEPT ![id] = "unconfigured"]
                /\ UNCHANGED <<aiLog, aiCalls>>
           ELSE /\ aiLog' = logAIEvent(logAIEvent(aiLog, id, "Process Started", "info"),
                                       id, "Context Loaded", "info")
                /\ aiCalls' = [aiCalls EXCEPT ![id] = Append(@, ResolveWindow(data))]
                /\ pcq' = [pcq EXCEPT ![id] = "calling"]
                /\ UNCHANGED docs
    /\ UNCHANGED <<openaiKey, snap, parsed, staged>>
    /\ UNCHANGED <<screenVars, notifyVars>>

\* processQuote up to the capability call: guard, getOpenAI, the first two log events
processQuoteStart(id) ==
    /\ pcq[id] = "created"
    /\ LET data == snap[id]
       IN  IF ~TriggerMatches(data)
           THEN /\ pcq' = [pcq EXCEPT ![id] = "ignored"]
                /\ UNCHANGED <<docs, aiLog, aiCalls>>
           ELSE IF ~openaiKey
           THEN /\ docs' = [docs EXCEPT
                              ![id].description = Description("missing_key", 0, ""),
                              ![id].status = "backlog"]
                /\ pcq' = [pcq EXCEPT ![id] = "unconfigured"]
                /\ UNCHANGED <<aiLog, aiCalls>>
           ELSE /\ aiLog' = logAIEvent(logAIEvent(aiLog, id, "Process Started", "info"),
                                       id, "Context Loaded", "info")
                /\ aiCalls' = [aiCalls EXCEPT ![id] = Append(@, ResolveWindow(data))]
                /\ pcq' = [pcq EXCEPT ![id] = "calling"]
                /\ UNCHANGED docs
    /\ UNCHANGED <<openaiKey, snap, parsed, staged>>
    /\ UNCHANGED <<screenVars, notifyVars>>

\* the capability call settles; the response is parsed
processQuoteResponse(id, outcome) ==
    /\ pcq[id] = "calling"
    /\ IF outcome.kind = "throw"
       THEN /\ CatchError(id, "capability")
            /\ aiLog' = logAIEvent(aiLog, id, "Error", "error")
            /\ UNCHANGED parsed
       ELSE IF outcome.kind = "garbage"
       THEN /\ CatchError(id, "parse")
            /\ aiLog' = logAIEvent(logAIEvent(aiLog, id, "AI Response", "info"),
                                   id, "Error", "error")
            /\ UNCHANGED parsed
       ELSE /\ parsed' = [parsed EXCEPT ![id] =
                             [isArray |-> outcome.kind # "not_array", items |-> outcome.tasks]]
            /\ aiLog' = logAIEvent(logAIEvent(aiLog, id, "AI Response", "info"),
                                   id, "Extraction Complete", "info")
            /\ pcq' = [pcq EXCEPT ![id] = "parsed"]
            /\ UNCHANGED docs
    /\ UNCHANGED <<openaiKey, snap, staged, aiCalls>>
    /\ UNCHANGED <<screenVars, notifyVars>>

\* the record batch.set stages for a descriptor
DerivedRecord(id, task) ==
    [NoDoc EXCEPT !.status = "backlog", !.title = "extracted",
                  !.description = Description("task", 0, ""),
                  !.originalQuoteId = id[1], !.isNew = TRUE,
                  !.startDate = task.startDate, !.dueDate = task.dueDate]

\* tasks.forEach(batch.set), batch.update(snap.ref), the 'Process Complete' log event
processQuoteStage(id) ==
    /\ pcq[id] = "parsed"
    /\ IF ~parsed[id].isArray
       THEN /\ CatchError(id, "not_a_function")
            /\ aiLog' = logAIEvent(aiLog, id, "Error", "error")
            /\ UNCHANGED staged
       ELSE IF \E i \in DOMAIN parsed[id].items : ~parsed[id].items[i].complete
       THEN /\ CatchError(id, "invalid_document")
            /\ aiLog' = logAIEvent(aiLog, id, "Error", "error")
            /\ UNCHANGED staged
       ELSE /\ staged' = [staged EXCEPT ![id] =
                             [i \in DOMAIN parsed[id].items |->
                                 DerivedRecord(id, parsed[id].items[i])]]
            /\ aiLog' = logAIEvent(aiLog, id, "Process Complete", "success")
            /\ pcq' = [pcq EXCEPT ![id] = "committing"]
            /\ UNCHANGED docs
    /\ UNCHANGED <<openaiKey, snap, parsed, aiCalls>>
    /\ UNCHANGED <<screenVars, notifyVars>>

\* the documents of a committed batch: every staged task and the request's update
CommittedDocs(id) ==
    [d \in DocIds |->
        IF d = id
        THEN [docs[id] EXCEPT !.status = "done", !.title = "Quote Processed",
                              !.description = Description("summary", Len(parsed[id].items), "")]
        ELSE IF d[1] = id[1] /\ d[2] \in DOMAIN staged[id] THEN staged[id][d[2]]
        ELSE docs[d]]

\* mutant of processQuoteCommit: the tasks are written one by one, so a failure leaves
\* the first of them behind
processQuoteCommit_TaskByTask(id, ok) ==
    /\ pcq[id] = "committing"
    /\ IF ok
       THEN /\ docs' = CommittedDocs(id)
            /\ snap' = [d \in DocIds |->
                           IF d[1] = id[1] /\ d[2] \in DOMAIN staged[id]
                           THEN staged[id][d[2]] ELSE snap[d]]
            /\ pcq' = [d \in DocIds |->
                          IF d = id THEN "done"
                          ELSE IF d[1] = id[1] /\ d[2] \in DOMAIN staged[id] THEN "created"
                          ELSE pcq[d]]
            /\ UNCHANGED aiLog
       ELSE /\ docs' = [d \in DocIds |->
                           IF d = id
                           THEN [docs[id] EXCEPT !.status = "error",
                                                 !.description = Description("failed", 0, "commit")]
                           ELSE IF d[1] = id[1] /\ d[2] = 1 /\ 1 \in DOMAIN staged[id]
                           THEN staged[id][1]
                           ELSE docs[d]]
            /\ pcq' = [pcq EXCEPT ![id] = "failed"]
            /\ aiLog' = logAIEvent(aiLog, id, "Error", "error")
            /\ UNCHANGED snap
    /\ UNCHANGED <<openaiKey, parsed, staged, aiCalls>>
    /\ UNCHANGED <<screenVars, notifyVars>>

\* await batch.commit(): the batch is applied as a whole (ok) or rejected
processQuoteCommit(id, ok) ==
    /\ pcq[id] = "committing"
    /\ IF ok
       THEN /\ docs' = CommittedDocs(id)
            /\ snap' = [d \in DocIds |->
                           IF d[1] = id[1] /\ d[2] \in DOMAIN staged[id]
                           THEN staged[id][d[2]] ELSE snap[d]]
            /\ pcq' = [d \in DocIds |->
                          IF d = id THEN "done"
                          ELSE IF d[1] = id[1] /\ d[2] \in DOMAIN staged[id] THEN "created"
                          ELSE pcq[d]]
            /\ UNCHANGED aiLog
       ELSE /\ CatchError(id, "commit")
            /\ aiLog' = logAIEvent(aiLog, id, "Error", "error")
            /\ UNCHANGED snap
    /\ UNCHANGED <<openaiKey, parsed, staged, aiCalls>>
    /\ UNCHANGED <<screenVars, notifyVars>>


(***************************************************************************)
(* Claims about the extraction pipeline.                                   *)
(***************************************************************************)
\* the derived tasks of request r that exist in the collection
Visible(r) == {i \in 1 .. MaxExtract : docs[<<r, i>>].status # "none"}

\* the tasks derived from request r: the descriptors of its parsed response
Extracted(r) == 1 .. Len(parsed[Req(r)].items)

C9_GuardIgnores ==
    \A id \in DocIds :
        (/\ snap[id].status # "none"
         /\ ~(/\ snap[id].status = "backlog"
              /\ snap[id].assignee = "AI_BOT"
              /\ snap[id].quoteUrl)) =>
            /\ pcq[id] \in {"created", "ignored"}
            /\ aiCalls[id] = << >>
            /\ aiLog[id] = << >>
            /\ docs[id] = snap[id]
            /\ id[2] = 0 => Visible(id[1]) = {}

\* the guard has run on a task derived from one request and on another request that
\* is in backlog with a quote but carries another assignee
C9_Witness ==
    \E r, q \in RequestIds :
        /\ pcq[<<r, 1>>] = "ignored"
        /\ docs[<<r, 1>>].status = "backlog"
        /\ pcq[Req(q)] = "ignored"
        /\ snap[Req(q)].status = "backlog" /\ snap[Req(q)].quoteUrl
        /\ snap[Req(q)].assignee # "AI_BOT"

\* a run that started and is no longer in flight
Settled(id) == aiCalls[id] # << >> /\ pcq[id] \notin {"calling", "parsed", "committing"}

Triggered(id) ==
    /\ snap[id].status = "backlog" /\ snap[id].assignee = "AI_BOT" /\ snap[id].quoteUrl
    /\ pcq[id] # "created"

\* C11: without the capability's credentials a triggered request stays in backlog, the
\* capability is not invoked for it and no task is derived from it.
C11_ConfigurationError ==
    ~openaiKey =>
        \A r \in RequestIds :
            Triggered(Req(r)) =>
                /\ docs[Req(r)].status = "backlog"
                /\ docs[Req(r)].description.kind = "missing_key"
                /\ aiCalls[Req(r)] = << >>
                /\ Visible(r) = {}

\* both requests were triggered without the credentials
C11_Witness ==
    /\ ~openaiKey
    /\ \A r \in RequestIds : Triggered(Req(r)) /\ pcq[Req(r)] = "unconfigured"

\* a run that is over: ignored, refused for want of credentials, failed or completed
Over(id) == pcq[id] \in {"ignored", "unconfigured", "failed", "done"}

\* C12: the capability is invoked at most once per request, and once the run a
\* creation started is over nothing starts another: later updates of the record leave
\* the run, the calls, the log and the derived tasks as they are.
C12_NoAutomaticRetry ==
    [][\A id \in DocIds :
          /\ Len(aiCalls'[id]) <= 1
          /\ Over(id) =>
                /\ pcq'[id] = pcq[id]
                /\ aiCalls'[id] = aiCalls[id]
                /\ aiLog'[id] = aiLog[id]
                /\ \A i \in 1 .. MaxExtract :
                      (docs[<<id[1], i>>].status = "none") =
                          (docs'[<<id[1], i>>].status = "none")]_vars

\* a failed request was moved back to backlog, another was refused for want of
\* credentials or failed and was then moved to done
C12_Witness ==
    \E r, q \in RequestIds :
        /\ pcq[Req(r)] = "failed" /\ docs[Req(r)].status = "backlog"
        /\ Len(aiCalls[Req(r)]) = 1
        /\ pcq[Req(q)] = "failed" /\ docs[Req(q)].status = "done"
        /\ r # q

\* the window the capability was given for request r
WindowOf(r) == aiCalls[Req(r)][1]

\* C13: every task the pipeline has materialized has its startDate and its dueDate
\* inside the window its request was processed with.
C13_OutputInWindow ==
    \A r \in RequestIds :
        \A i \in Visible(r) :
            /\ docs[<<r, i>>].startDate \in WindowOf(r).start .. WindowOf(r).deadline
            /\ docs[<<r, i>>].dueDate \in WindowOf(r).start .. WindowOf(r).deadline

\* C14: every window passed to the capability has start <= deadline, whichever of the
\* project's start date and deadline the request carries.
C14_WindowOrdered ==
    \A id \in DocIds :
        \A k \in DOMAIN aiCalls[id] : aiCalls[id][k].start <= aiCalls[id][k].deadline

\* the log of the request holds an event of the type
Logged(id, type) == \E k \in DOMAIN aiLog[id] : aiLog[id][k].type = type

\* C30: once the run of a request is over, its log holds the 'Process Complete' success
\* event only if the batch was committed and the request is done, and an error event
\* only if the request is in error; a request in error has no success event.
C30_LogAgreesWithStatus ==
    \A r \in RequestIds :
        Over(Req(r)) =>
            /\ Logged(Req(r), "success") =>
                  pcq[Req(r)] = "done" /\ docs[Req(r)].status = "done"
            /\ docs[Req(r)].status = "error" => ~Logged(Req(r), "success")
            /\ Logged(Req(r), "error") => docs[Req(r)].status = "error"

(***************************************************************************)
(* The notification workflow (src/functions/index.js).                     *)
(*                                                                         *)
(* checkDailyTasks writes each worker's context document and sends the     *)
(* daily summary; handleButtonResponse runs once per button reply.  A run  *)
(* of handleButtonResponse reads the context (contextRef.get()), and, in   *)
(* a later step, writes what it computed from that read                    *)
(* (contextRef.update()); nothing orders the steps of two runs.            *)
(* A timestamp (lastMessageAt) is represented by the kind of event that    *)
(* wrote it.  Tasks are never deleted, so every task a context names       *)
(* exists.  Of the messages sent, the last one per worker is kept.         *)
(***************************************************************************)
MaxIndex == 2                    \* replies are read while currentTaskIndex < MaxIndex

WTaskIds == {1, 2}               \* the documents of the tasks collection
Handlers == {1, 2}               \* invocations of handleButtonResponse that may overlap

WorkerA == "351910000001"        \* context document ids: the digits of a phone number
WorkerB == "351910000002"
Workers == {WorkerA, WorkerB}

\* phone.replace(/\D/g, ''), on the phone numbers of the model
CleanPhone(phone) ==
    CASE phone = "+351 910 000 001" -> WorkerA
      [] phone = "+351910000001"    -> WorkerA
      [] phone = "351910000001"     -> WorkerA
      [] phone = "+351910000002"    -> WorkerB
      [] phone = "351910000002"     -> WorkerB
      [] OTHER                      -> ""

\* the `from` of an incoming message
FromPhones == {"351910000001", "351910000002"}

\* a normalisation that takes every other text for an acknowledgement
NormalizePayload_Lenient(buttonPayload) ==
    CASE buttonPayload = "Ver Primeira Tarefa" -> "ver primeira tarefa"
      [] buttonPayload = "Comecar Agora"       -> "comecar agora"
      [] buttonPayload = "comecar "            -> "comecar"
      [] buttonPayload = "Saltar"              -> "saltar"
      [] buttonPayload = "Sim, Terminei"       -> "sim, terminei"
      [] buttonPayload = "Ainda a Trabalhar"   -> "ainda a trabalhar"
      [] OTHER                                 -> "ok"

\* buttonPayload.toLowerCase().trim(), on the button texts of the model
NormalizePayload(buttonPayload) ==
    CASE buttonPayload = "Ver Primeira Tarefa" -> "ver primeira tarefa"
      [] buttonPayload = "Comecar Agora"       -> "comecar agora"
      [] buttonPayload = "comecar "            -> "comecar"
      [] buttonPayload = "Saltar"              -> "saltar"
      [] buttonPayload = "Sim, Terminei"       -> "sim, terminei"
      [] buttonPayload = "Ainda a Trabalhar"   -> "ainda a trabalhar"
      [] buttonPayload = " OK"                 -> "ok"
      [] buttonPayload = "Ajuda"               -> "ajuda"
      [] OTHER                                 -> buttonPayload

ButtonPayloads ==
    {"Ver Primeira Tarefa", "Comecar Agora", "Saltar", "Sim, Terminei",
     "Ainda a Trabalhar", " OK", "Ajuda"}

\* the button texts whose branch writes the cursor of the context
CursorPayloads == {"Ver Primeira Tarefa", "Saltar", "Sim, Terminei"}

\* a task document, as far as the workflow reads and writes it; notified, acceptedAt
\* and completedAt tell whether the timestamp of that name has been written
WTask(status, assignee, assigneePhone, dueDate) ==
    [status |-> status, assignee |-> assignee, assigneePhone |-> assigneePhone,
     dueDate |-> dueDate, notified |-> FALSE, acceptedAt |-> FALSE,
     completedAt |-> FALSE]

\* the tasks the screen has created; dueDate: 0 is a task without one
WTaskRecords ==
    {WTask("backlog", "Rui", "+351 910 000 001", d) : d \in 0 .. 1}
        \cup {WTask("backlog", "", "+351 910 000 001", 1)}

\* a task nobody is assigned to
IdleTask == WTask("done", "", "", 0)

\* no context document
NoCtx ==
    [exists |-> FALSE, todaysTasks |-> << >>, currentTaskId |-> 0,
     currentTaskIndex |-> 0, awaitingResponse |-> "null", lastMessageAt |-> ""]

NoReply  == [from |-> "", payload |-> ""]
NoResult == [handled |-> FALSE, why |-> ""]
Result(handled, why) == [handled |-> handled, why |-> why]

\* the webhook hands a button reply to a new run of handleButtonResponse
ReceiveReply(h, from, buttonPayload) ==
    /\ hpc[h] \in {"idle", "done"}
    /\ hpc' = [hpc EXCEPT ![h] = "start"]
    /\ hreply' = [hreply EXCEPT ![h] = [from |-> from, payload |-> buttonPayload]]
    /\ hsnap' = [hsnap EXCEPT ![h] = NoCtx]
    /\ hresult' = [hresult EXCEPT ![h] = NoResult]
    /\ UNCHANGED <<wtasks, ctx, sent, advanced, results>>
    /\ UNCHANGED <<screenVars, quoteVars>>

\* the value the run returns right after reading context c, "" if it goes on
EarlyReturn(c, payload) ==
    IF ~c.exists THEN "no_context"
    ELSE IF payload = "ver primeira tarefa"
         THEN (IF Len(c.todaysTasks) = 0 THEN "no_tasks" ELSE "")
    ELSE IF payload \in {"comecar agora", "comecar", "sim, terminei"}
         THEN (IF c.currentTaskId = 0 THEN "no_current_task" ELSE "")
    ELSE IF payload \in {"saltar", "ainda a trabalhar", "ok"} THEN ""
    ELSE "unknown_payload"

\* contextRef.get() and the tests made on what it returned
ReadContext(h) ==
    /\ hpc[h] = "start"
    /\ LET c       == ctx[CleanPhone(hreply[h].from)]
           payload == NormalizePayload(hreply[h].payload)
           early   == EarlyReturn(c, payload)
       IN  /\ c.currentTaskIndex < MaxIndex
           /\ hsnap' = [hsnap EXCEPT ![h] = c]
           /\ IF early # ""
              THEN /\ hpc' = [hpc EXCEPT ![h] = "done"]
                   /\ hresult' = [hresult EXCEPT ![h] = Result(FALSE, early)]
              ELSE /\ hpc' = [hpc EXCEPT ![h] = "read"]
                   /\ UNCHANGED hresult
    /\ UNCHANGED <<wtasks, ctx, hreply, sent, advanced, results>>
    /\ UNCHANGED <<screenVars, quoteVars>>

\* the view-first-task branch leaving currentTaskIndex as it was
FirstTaskContext_KeepsIndex(cur, c) ==
    [cur EXCEPT !.currentTaskId = c.todaysTasks[1],
                !.awaitingResponse = "task_start_prompt",
                !.lastMessageAt = "reply"]

\* the view-first-task branch presenting the last task of the list
FirstTaskContext_SecondTask(cur, c) ==
    [cur EXCEPT !.currentTaskId = c.todaysTasks[Len(c.todaysTasks)],
                !.currentTaskIndex = Len(c.todaysTasks) - 1,
                !.awaitingResponse = "task_start_prompt",
                !.lastMessageAt = "reply"]

\* the context update of the view-first-task branch: the first task of the list the
\* run read becomes the current one
FirstTaskContext(cur, c) ==
    [cur EXCEPT !.currentTaskId = c.todaysTasks[1],
                !.currentTaskIndex = 0,
                !.awaitingResponse = "task_start_prompt",
                !.lastMessageAt = "reply"]

\* the start branch moving the cursor as well
AcceptedContext_Advances(cur) ==
    [cur EXCEPT !.awaitingResponse = "completion_check", !.lastMessageAt = "reply",
                !.currentTaskIndex = @ + 1]

\* the context update of the start branch
AcceptedContext(cur) ==
    [cur EXCEPT !.awaitingResponse = "completion_check", !.lastMessageAt = "reply"]

\* the still-working and ok branches clearing awaitingResponse as well
Heartbeat_ClearsPrompt(cur) ==
    [cur EXCEPT !.lastMessageAt = "reply", !.awaitingResponse = "null"]

\* the context update of the still-working and ok branches
Heartbeat(cur) == [cur EXCEPT !.lastMessageAt = "reply"]

\* the skip and done branches with the current task kept when the list is finished
AdvancedContext_KeepsCurrentTask(cur, c, stamp) ==
    LET nextIndex == c.currentTaskIndex + 1
    IN  IF nextIndex >= Len(c.todaysTasks)
        THEN [cur EXCEPT !.currentTaskIndex = nextIndex,
                         !.awaitingResponse = "null", !.lastMessageAt = stamp]
        ELSE [cur EXCEPT !.currentTaskId = c.todaysTasks[nextIndex + 1],
                         !.currentTaskIndex = nextIndex,
                         !.awaitingResponse = "task_start_prompt",
                         !.lastMessageAt = stamp]

\* the context update of the skip and done branches, computed from the context c the
\* run read: the next task is presented, or the list is finished
AdvancedContext(cur, c, stamp) ==
    LET nextIndex == c.currentTaskIndex + 1
    IN  IF nextIndex >= Len(c.todaysTasks)
        THEN [cur EXCEPT !.currentTaskId = 0, !.currentTaskIndex = nextIndex,
                         !.awaitingResponse = "null", !.lastMessageAt = stamp]
        ELSE [cur EXCEPT !.currentTaskId = c.todaysTasks[nextIndex + 1],
                         !.currentTaskIndex = nextIndex,
                         !.awaitingResponse = "task_start_prompt",
                         !.lastMessageAt = stamp]

\* the skip and done branches sending the start prompt at the end of the list as well
AdvancedOutcome_AlwaysPrompt(c, presented) ==
    [template |-> "task_start_prompt",
     why |-> IF c.currentTaskIndex + 1 >= Len(c.todaysTasks)
             THEN "all_tasks_complete" ELSE presented]

\* what the skip and done branches send and return
AdvancedOutcome(c, presented) ==
    IF c.currentTaskIndex + 1 >= Len(c.todaysTasks)
    THEN [template |-> "all_tasks_complete", why |-> "all_tasks_complete"]
    ELSE [template |-> "task_start_prompt", why |-> presented]

\* the replies that write the current task before they write the context
TaskPayloads == {"comecar agora", "comecar", "sim, terminei"}

\* taskRef.update() writing every task of the list instead of the current one
UpdateTask_MarksWholeList(h) ==
    /\ hpc[h] = "read"
    /\ LET payload == NormalizePayload(hreply[h].payload)
           c       == hsnap[h]
       IN  /\ payload \in TaskPayloads
           /\ wtasks' = [t \in WTaskIds |->
                            IF \E i \in DOMAIN c.todaysTasks : c.todaysTasks[i] = t
                            THEN (IF payload = "sim, terminei"
                                  THEN [wtasks[t] EXCEPT !.status = "done",
                                                         !.completedAt = TRUE]
                                  ELSE [wtasks[t] EXCEPT !.status = "in-progress",
                                                         !.acceptedAt = TRUE])
                            ELSE wtasks[t]]
    /\ hpc' = [hpc EXCEPT ![h] = "marked"]
    /\ UNCHANGED <<ctx, hsnap, hreply, hresult, sent, advanced, results>>
    /\ UNCHANGED <<screenVars, quoteVars>>

\* taskRef.update(): the current task of the context the run read is started or finished
UpdateTask(h) ==
    /\ hpc[h] = "read"
    /\ LET payload == NormalizePayload(hreply[h].payload)
           c       == hsnap[h]
       IN  /\ payload \in TaskPayloads
           /\ wtasks' = [wtasks EXCEPT ![c.currentTaskId] =
                            IF payload = "sim, terminei"
                            THEN [@ EXCEPT !.status = "done", !.completedAt = TRUE]
                            ELSE [@ EXCEPT !.status = "in-progress", !.acceptedAt = TRUE]]
    /\ hpc' = [hpc EXCEPT ![h] = "marked"]
    /\ UNCHANGED <<ctx, hsnap, hreply, hresult, sent, advanced, results>>
    /\ UNCHANGED <<screenVars, quoteVars>>

\* the rest of the run: contextRef.update(), the message, the return
WriteContext(h) ==
    /\ hpc[h] = IF NormalizePayload(hreply[h].payload) \in TaskPayloads
                THEN "marked" ELSE "read"
    /\ LET w       == CleanPhone(hreply[h].from)
           payload == NormalizePayload(hreply[h].payload)
           c       == hsnap[h]
       IN  CASE payload = "ver primeira tarefa" ->
                  /\ ctx' = [ctx EXCEPT ![w] = FirstTaskContext(@, c)]
                  /\ sent' = [sent EXCEPT ![w] = "task_start_prompt"]
                  /\ hresult' = [hresult EXCEPT ![h] = Result(TRUE, "sent_task_prompt")]
                  /\ advanced' = [advanced EXCEPT ![w] = 0]
                  /\ UNCHANGED wtasks
             [] payload \in {"comecar agora", "comecar"} ->
                  /\ ctx' = [ctx EXCEPT ![w] = AcceptedContext(@)]
                  /\ sent' = [sent EXCEPT ![w] = "task_accepted_confirmation"]
                  /\ hresult' = [hresult EXCEPT ![h] = Result(TRUE, "task_started")]
                  /\ UNCHANGED <<wtasks, advanced>>
             [] payload = "saltar" ->
                  /\ ctx' = [ctx EXCEPT ![w] = AdvancedContext(@, c, "reply")]
                  /\ sent' = [sent EXCEPT ![w] =
                        AdvancedOutcome(c, "skipped_to_next").template]
                  /\ hresult' = [hresult EXCEPT ![h] =
                        Result(TRUE, AdvancedOutcome(c, "skipped_to_next").why)]
                  /\ advanced' = [advanced EXCEPT ![w] = @ + 1]
                  /\ UNCHANGED wtasks
             [] payload = "sim, terminei" ->
                  /\ ctx' = [ctx EXCEPT ![w] = AdvancedContext(@, c, "reply")]
                  /\ sent' = [sent EXCEPT ![w] =
                        AdvancedOutcome(c, "task_done_next_presented").template]
                  /\ hresult' = [hresult EXCEPT ![h] =
                        Result(TRUE, AdvancedOutcome(c, "task_done_next_presented").why)]
                  /\ advanced' = [advanced EXCEPT ![w] = @ + 1]
                  /\ UNCHANGED wtasks
             [] payload = "ainda a trabalhar" ->
                  /\ ctx' = [ctx EXCEPT ![w] = Heartbeat(@)]
                  /\ hresult' = [hresult EXCEPT ![h] =
                        Result(TRUE, "acknowledged_still_working")]
                  /\ UNCHANGED <<wtasks, sent, advanced>>
             [] payload = "ok" ->
                  /\ ctx' = [ctx EXCEPT ![w] = Heartbeat(@)]
                  /\ hresult' = [hresult EXCEPT ![h] = Result(TRUE, "acknowledged_reminder")]
                  /\ UNCHANGED <<wtasks, sent, advanced>>
    /\ hpc' = [hpc EXCEPT ![h] = "done"]
    /\ UNCHANGED <<hsnap, hreply, results>>
    /\ UNCHANGED <<screenVars, quoteVars>>

\* the statuses of the board's columns
BoardStatuses == {"backlog", "in-progress", "done"}

\* the manager moves a task to another column of the board (moveTask)
MoveWTask(t, newStatus) ==
    /\ wtasks[t].status # newStatus
    /\ wtasks' = [wtasks EXCEPT ![t].status = newStatus]
    /\ UNCHANGED <<ctx, hpc, hsnap, hreply, hresult, sent, advanced, results>>
    /\ UNCHANGED <<screenVars, quoteVars>>

\* the backlog tasks with an assignee and a phone, grouped by the phone's digits
TasksOf(w) ==
    {t \in WTaskIds : /\ wtasks[t].status = "backlog"
                      /\ wtasks[t].assigneePhone # "" /\ wtasks[t].assignee # ""
                      /\ CleanPhone(wtasks[t].assigneePhone) = w}

\* a comparator that puts the tasks without a due date first
MustPrecede_UndatedFirst(a, b) ==
    /\ wtasks[b].dueDate # 0
    /\ \/ wtasks[a].dueDate = 0
       \/ wtasks[a].dueDate < wtasks[b].dueDate
       \/ wtasks[a].dueDate = wtasks[b].dueDate /\ a < b

\* tasks.sort(...): b must not come before a when the comparator puts a first; two
\* tasks without a due date compare inconsistently and may end in either order
MustPrecede(a, b) ==
    /\ wtasks[a].dueDate # 0
    /\ \/ wtasks[b].dueDate = 0
       \/ wtasks[a].dueDate < wtasks[b].dueDate
       \/ wtasks[a].dueDate = wtasks[b].dueDate /\ a < b

SortedLists(ids) ==
    {s \in UNION {[1 .. n -> ids] : n \in {Cardinality(ids)}} :
        /\ \A i, j \in DOMAIN s : i # j => s[i] # s[j]
        /\ \A i, j \in DOMAIN s : i < j => ~MustPrecede(s[j], s[i])}

\* the duplicate-free lists of task ids
TaskLists ==
    {s \in UNION {[1 .. n -> WTaskIds] : n \in 0 .. Cardinality(WTaskIds)} :
        \A i, j \in DOMAIN s : i # j => s[i] # s[j]}

\* a daily run with one try around the whole loop: WorkerA is processed first, and
\* when a write throws for WorkerA the run ends without processing WorkerB
checkDailyTasks_StopsAtFailure(order, outcome) ==
    LET stopped == TasksOf(WorkerA) # {} /\ outcome[WorkerA] \in {"set_throws", "commit_throws"}
        reached(w) == TasksOf(w) # {} /\ (w = WorkerA \/ ~stopped)
    IN  /\ \A w \in Workers : order[w] \in SortedLists(TasksOf(w))
        /\ \E w \in Workers : TasksOf(w) # {}
        /\ ctx' = [w \in Workers |->
                      IF ~reached(w) \/ outcome[w] = "set_throws" THEN ctx[w]
                      ELSE [exists |-> TRUE, todaysTasks |-> order[w], currentTaskId |-> 0,
                            currentTaskIndex |-> 0, awaitingResponse |-> "null",
                            lastMessageAt |-> "dispatch"]]
        /\ sent' = [w \in Workers |->
                       IF reached(w) /\ outcome[w] \in {"sent", "commit_throws"}
                       THEN "daily_tasks_summary" ELSE sent[w]]
        /\ wtasks' = [t \in WTaskIds |->
                         IF \E w \in Workers :
                               t \in TasksOf(w) /\ reached(w) /\ outcome[w] = "sent"
                         THEN [wtasks[t] EXCEPT !.notified = TRUE]
                         ELSE wtasks[t]]
        /\ advanced' = [w \in Workers |->
                           IF ~reached(w) \/ outcome[w] = "set_throws"
                           THEN advanced[w] ELSE 0]
        /\ results' = [w \in Workers |->
                          IF ~reached(w) THEN ""
                          ELSE IF outcome[w] = "sent" THEN "sent"
                          ELSE IF outcome[w] = "send_fails" THEN "failed"
                          ELSE "error"]
        /\ UNCHANGED <<hpc, hsnap, hreply, hresult>>
        /\ UNCHANGED <<screenVars, quoteVars>>

\* what happens while one worker is processed: everything succeeds ("sent"), the
\* send reports a failure, contextRef.set() throws, or the commit of the notifiedAt
\* batch throws; sendWhatsAppMessage never throws
DispatchOutcomes == {"sent", "send_fails", "set_throws", "commit_throws"}

\* the outcomes in which the store accepts every write
SendOutcomes == {"sent", "send_fails"}

\* one run of the scheduled function that found tasks to announce: per worker with
\* backlog tasks, the context is set, the summary is sent, and the tasks are stamped
\* if the send succeeded; an exception ends the processing of that worker only
\* (a run that finds no task returns without a write)
checkDailyTasks(order, outcome) ==
    /\ \A w \in Workers : order[w] \in SortedLists(TasksOf(w))
    /\ \E w \in Workers : TasksOf(w) # {}
    /\ ctx' = [w \in Workers |->
                  IF TasksOf(w) = {} \/ outcome[w] = "set_throws" THEN ctx[w]
                  ELSE [exists |-> TRUE, todaysTasks |-> order[w], currentTaskId |-> 0,
                        currentTaskIndex |-> 0, awaitingResponse |-> "null",
                        lastMessageAt |-> "dispatch"]]
    /\ sent' = [w \in Workers |->
                   IF TasksOf(w) # {} /\ outcome[w] \in {"sent", "commit_throws"}
                   THEN "daily_tasks_summary" ELSE sent[w]]
    /\ wtasks' = [t \in WTaskIds |->
                     IF \E w \in Workers : t \in TasksOf(w) /\ outcome[w] = "sent"
                     THEN [wtasks[t] EXCEPT !.notified = TRUE]
                     ELSE wtasks[t]]
    /\ advanced' = [w \in Workers |->
                       IF TasksOf(w) = {} \/ outcome[w] = "set_throws"
                       THEN advanced[w] ELSE 0]
    /\ results' = [w \in Workers |->
                      IF TasksOf(w) = {} THEN ""
                      ELSE IF outcome[w] = "sent" THEN "sent"
                      ELSE IF outcome[w] = "send_fails" THEN "failed"
                      ELSE "error"]
    /\ UNCHANGED <<hpc, hsnap, hreply, hresult>>
    /\ UNCHANGED <<screenVars, quoteVars>>

(***************************************************************************)
(* The specifications: one per part of the program.  Each starts with the  *)
(* other parts idle and leaves them unchanged.                             *)
(***************************************************************************)
InitConflict ==
    /\ tasks = << >>
    /\ tz \in Zones
    /\ conflict = 0
    /\ depConflict = 0
    /\ depWarning = 0
    /\ attempts = 0
    /\ openaiKey = TRUE
    /\ docs = [d \in DocIds |-> NoDoc]
    /\ snap = [d \in DocIds |-> NoDoc]
    /\ aiLog = [d \in DocIds |-> << >>]
    /\ pcq = [d \in DocIds |-> "none"]
    /\ parsed = [d \in DocIds |-> [isArray |-> TRUE, items |-> << >>]]
    /\ staged = [d \in DocIds |-> << >>]
    /\ aiCalls = [d \in DocIds |-> << >>]
    /\ wtasks = [t \in WTaskIds |-> IdleTask]
    /\ ctx = [w \in Workers |-> NoCtx]
    /\ hpc = [h \in Handlers |-> "idle"]
    /\ hsnap = [h \in Handlers |-> NoCtx]
    /\ hreply = [h \in Handlers |-> NoReply]
    /\ hresult = [h \in Handlers |-> NoResult]
    /\ sent = [w \in Workers |-> ""]
    /\ advanced = [w \in Workers |-> 0]
    /\ results = [w \in Workers |-> ""]

NextConflict ==
    \/ \E id \in ScreenIds, pos \in ScreenIds, title \in Titles, phone \in FormPhones,
          sd \in Dates, du \in Durations, deps \in {<< >>, <<1>>}, ok \in BOOLEAN :
           handleCreateTask(id, pos, title, phone, sd, du, deps, ok)
    \/ \E k \in ScreenIds, s \in MoveStatuses : moveTask(k, s)

SpecConflict == InitConflict /\ [][NextConflict]_vars

NextDeps ==
    \/ \E id \in ScreenIds, pos \in ScreenIds, title \in Titles,
          sd \in Dates, du \in Durations, deps \in DepLists, ok \in BOOLEAN :
           handleCreateTask(id, pos, title, "", sd, du, deps, ok)
    \/ \E sd \in Dates, deps \in DepLists : renderDependencyWarning(sd, deps)

SpecDeps == InitConflict /\ [][NextDeps]_vars

InitExtract ==
    /\ tasks = << >>
    /\ tz = [before |-> 0, after |-> 0]
    /\ conflict = 0
    /\ depConflict = 0
    /\ depWarning = 0
    /\ attempts = 0
    /\ openaiKey \in BOOLEAN
    /\ docs = [d \in DocIds |-> NoDoc]
    /\ snap = [d \in DocIds |-> NoDoc]
    /\ aiLog = [d \in DocIds |-> << >>]
    /\ pcq = [d \in DocIds |-> "none"]
    /\ parsed = [d \in DocIds |-> [isArray |-> TRUE, items |-> << >>]]
    /\ staged = [d \in DocIds |-> << >>]
    /\ aiCalls = [d \in DocIds |-> << >>]
    /\ wtasks = [t \in WTaskIds |-> IdleTask]
    /\ ctx = [w \in Workers |-> NoCtx]
    /\ hpc = [h \in Handlers |-> "idle"]
    /\ hsnap = [h \in Handlers |-> NoCtx]
    /\ hreply = [h \in Handlers |-> NoReply]
    /\ hresult = [h \in Handlers |-> NoResult]
    /\ sent = [w \in Workers |-> ""]
    /\ advanced = [w \in Workers |-> 0]
    /\ results = [w \in Workers |-> ""]

NextExtract ==
    \/ \E r \in RequestIds, status \in {"backlog", "done"}, assignee \in {"AI_BOT", "Ana"},
          quoteUrl \in BOOLEAN :
           CreateDoc(r, status, assignee, quoteUrl, NoDate, NoDate)
    \/ \E id \in DocIds : processQuoteStart(id)
    \/ \E id \in DocIds, outcome \in Outcomes : processQuoteResponse(id, outcome)
    \/ \E id \in DocIds : processQuoteStage(id)
    \/ \E id \in DocIds, ok \in BOOLEAN : processQuoteCommit(id, ok)

SpecExtract == InitExtract /\ [][NextExtract]_vars

\* the pipeline together with later updates of the documents' status
NextRetry ==
    \/ NextExtract
    \/ \E id \in DocIds, newStatus \in MoveStatuses : UpdateDoc(id, newStatus)

SpecRetry == InitExtract /\ [][NextRetry]_vars

\* the dates a request can carry as its project's start and deadline
WindowStarts    == {NoDate, 7, 40}
WindowDeadlines == {NoDate, 20}

\* requests with every combination of dates, up to the capability call
NextWindow ==
    \/ \E r \in RequestIds, projectStart \in WindowStarts, projectEnd \in WindowDeadlines :
          CreateDoc(r, "backlog", "AI_BOT", TRUE, projectStart, projectEnd)
    \/ \E id \in DocIds : processQuoteStart(id)

SpecWindow == InitExtract /\ [][NextWindow]_vars

InitNotify ==
    /\ tasks = << >>
    /\ tz = [before |-> 0, after |-> 0]
    /\ conflict = 0
    /\ depConflict = 0
    /\ depWarning = 0
    /\ attempts = 0
    /\ openaiKey = TRUE
    /\ docs = [d \in DocIds |-> NoDoc]
    /\ snap = [d \in DocIds |-> NoDoc]
    /\ aiLog = [d \in DocIds |-> << >>]
    /\ pcq = [d \in DocIds |-> "none"]
    /\ parsed = [d \in DocIds |-> [isArray |-> TRUE, items |-> << >>]]
    /\ staged = [d \in DocIds |-> << >>]
    /\ aiCalls = [d \in DocIds |-> << >>]
    /\ wtasks \in [WTaskIds -> WTaskRecords]
    /\ ctx = [w \in Workers |-> NoCtx]
    /\ hpc = [h \in Handlers |-> "idle"]
    /\ hsnap = [h \in Handlers |-> NoCtx]
    /\ hreply = [h \in Handlers |-> NoReply]
    /\ hresult = [h \in Handlers |-> NoResult]
    /\ sent = [w \in Workers |-> ""]
    /\ advanced = [w \in Workers |-> 0]
    /\ results = [w \in Workers |-> ""]

\* both tasks are in the backlog of the worker who replies
InitReplies ==
    /\ tasks = << >>
    /\ tz = [before |-> 0, after |-> 0]
    /\ conflict = 0
    /\ depConflict = 0
    /\ depWarning = 0
    /\ attempts = 0
    /\ openaiKey = TRUE
    /\ docs = [d \in DocIds |-> NoDoc]
    /\ snap = [d \in DocIds |-> NoDoc]
    /\ aiLog = [d \in DocIds |-> << >>]
    /\ pcq = [d \in DocIds |-> "none"]
    /\ parsed = [d \in DocIds |-> [isArray |-> TRUE, items |-> << >>]]
    /\ staged = [d \in DocIds |-> << >>]
    /\ aiCalls = [d \in DocIds |-> << >>]
    /\ wtasks = [t \in WTaskIds |-> WTask("backlog", "Rui", "+351 910 000 001", 1)]
    /\ ctx = [w \in Workers |-> NoCtx]
    /\ hpc = [h \in Handlers |-> "idle"]
    /\ hsnap = [h \in Handlers |-> NoCtx]
    /\ hreply = [h \in Handlers |-> NoReply]
    /\ hresult = [h \in Handlers |-> NoResult]
    /\ sent = [w \in Workers |-> ""]
    /\ advanced = [w \in Workers |-> 0]
    /\ results = [w \in Workers |-> ""]

\* replies of one worker to overlapping runs, and the daily run, in any interleaving
NextNotify ==
    \/ \E h \in Handlers, buttonPayload \in CursorPayloads :
          ReceiveReply(h, WorkerA, buttonPayload)
    \/ \E h \in Handlers : ReadContext(h)
    \/ \E h \in Handlers : UpdateTask(h)
    \/ \E h \in Handlers : WriteContext(h)
    \/ \E order \in [Workers -> TaskLists], outcome \in [Workers -> SendOutcomes] :
          checkDailyTasks(order, outcome)

SpecNotify == InitReplies /\ [][NextNotify]_vars

\* the same, one run at a time: a reply or the daily run starts when no run is under way
NextNotifySeq ==
    \/ \E from \in FromPhones, buttonPayload \in ButtonPayloads :
          ReceiveReply(1, from, buttonPayload)
    \/ ReadContext(1)
    \/ UpdateTask(1)
    \/ WriteContext(1)
    \/ \E order \in [Workers -> TaskLists], outcome \in [Workers -> SendOutcomes] :
          hpc[1] \in {"idle", "done"} /\ checkDailyTasks(order, outcome)

SpecNotifySeq == InitNotify /\ [][NextNotifySeq]_vars

\* the tasks of two workers, with and without a due date, and a task without assignee
DispatchTaskRecords ==
    {WTask("backlog", "Rui", "+351 910 000 001", d) : d \in 0 .. 1}
        \cup {WTask("backlog", "Ana", "+351910000002", 1),
              WTask("backlog", "", "+351 910 000 001", 1)}

InitDispatch ==
    /\ tasks = << >>
    /\ tz = [before |-> 0, after |-> 0]
    /\ conflict = 0
    /\ depConflict = 0
    /\ depWarning = 0
    /\ attempts = 0
    /\ openaiKey = TRUE
    /\ docs = [d \in DocIds |-> NoDoc]
    /\ snap = [d \in DocIds |-> NoDoc]
    /\ aiLog = [d \in DocIds |-> << >>]
    /\ pcq = [d \in DocIds |-> "none"]
    /\ parsed = [d \in DocIds |-> [isArray |-> TRUE, items |-> << >>]]
    /\ staged = [d \in DocIds |-> << >>]
    /\ aiCalls = [d \in DocIds |-> << >>]
    /\ wtasks \in [WTaskIds -> DispatchTaskRecords]
    /\ ctx = [w \in Workers |-> NoCtx]
    /\ hpc = [h \in Handlers |-> "idle"]
    /\ hsnap = [h \in Handlers |-> NoCtx]
    /\ hreply = [h \in Handlers |-> NoReply]
    /\ hresult = [h \in Handlers |-> NoResult]
    /\ sent = [w \in Workers |-> ""]
    /\ advanced = [w \in Workers |-> 0]
    /\ results = [w \in Workers |-> ""]

\* daily runs in which any write may fail, between the manager's moves on the board
NextDispatch ==
    \/ \E order \in [Workers -> TaskLists], outcome \in [Workers -> DispatchOutcomes] :
          checkDailyTasks(order, outcome)
    \/ \E t \in WTaskIds, newStatus \in BoardStatuses : MoveWTask(t, newStatus)

SpecDispatch == InitDispatch /\ [][NextDispatch]_vars

\* the button a worker presses next in the scripted dialogue: view the first task after
\* the summary, start the task that was presented, finish the task that was started;
\* "" when the worker has nothing to press
ScriptedReply(w) ==
    IF ~ctx[w].exists \/ sent[w] = "" THEN ""
    ELSE IF ctx[w].awaitingResponse = "task_start_prompt" THEN "Comecar Agora"
    ELSE IF ctx[w].awaitingResponse = "completion_check" THEN "Sim, Terminei"
    ELSE IF sent[w] = "daily_tasks_summary" THEN "Ver Primeira Tarefa"
    ELSE ""

\* one daily run, then the workers answer by the script, one reply at a time
NextDialogue ==
    \/ \E w \in Workers :
          ScriptedReply(w) # "" /\ ReceiveReply(1, w, ScriptedReply(w))
    \/ ReadContext(1)
    \/ UpdateTask(1)
    \/ WriteContext(1)
    \/ \E order \in [Workers -> TaskLists], outcome \in [Workers -> SendOutcomes] :
          /\ \A w \in Workers : ~ctx[w].exists
          /\ checkDailyTasks(order, outcome)

SpecDialogue == InitDispatch /\ [][NextDialogue]_vars


(***************************************************************************)
(* Claims about the notification workflow.                                 *)
(***************************************************************************)
\* C2: whatever the interleaving of two runs of handleButtonResponse for one worker,
\* once no run is under way the context's currentTaskIndex counts every reply that
\* was handled as advancing since the cursor was last reset: two skips that overlap
\* move it by two.
C2_NoLostUpdate ==
    (\A h \in Handlers : hpc[h] \in {"idle", "done"}) =>
        \A w \in Workers : ctx[w].exists => ctx[w].currentTaskIndex = advanced[w]

\* C3: a run that handles a skip and read a context with no currentTaskId returns
\* "not handled" and leaves the context and every task as they were.
C3_SkipWithoutCurrentTask ==
    [][\A h \in Handlers :
          (/\ hpc[h] # "done" /\ hpc'[h] = "done"
           /\ NormalizePayload(hreply[h].payload) = "saltar"
           /\ hsnap'[h].exists
           /\ hsnap'[h].currentTaskId = 0)
          => (/\ ~hresult'[h].handled
              /\ ctx' = ctx
              /\ wtasks' = wtasks)]_vars

\* the worker whose reply run h handles
WorkerOf(h) == CleanPhone(hreply[h].from)

\* this step ends run h, which handles one of the payloads
Finishes(h, payloads) ==
    /\ hpc[h] # "done" /\ hpc'[h] = "done"
    /\ NormalizePayload(hreply[h].payload) \in payloads

\* C15: a handled skip or done reply moves currentTaskIndex forward by exactly one; if
\* the new index is past the end of todaysTasks, currentTaskId is cleared,
\* awaitingResponse is null and the all-tasks-complete message is sent; otherwise
\* currentTaskId is the task at the new index, awaitingResponse is task_start_prompt
\* and the start prompt is sent.
C15_AdvanceByOne ==
    [][\A h \in Handlers :
          (Finishes(h, {"saltar", "sim, terminei"}) /\ hresult'[h].handled) =>
              LET w        == WorkerOf(h)
                  newIndex == ctx[w].currentTaskIndex + 1
              IN  /\ ctx'[w].currentTaskIndex = newIndex
                  /\ ctx'[w].todaysTasks = ctx[w].todaysTasks
                  /\ IF newIndex >= Len(ctx[w].todaysTasks)
                     THEN /\ ctx'[w].currentTaskId = 0
                          /\ ctx'[w].awaitingResponse = "null"
                          /\ sent'[w] = "all_tasks_complete"
                     ELSE /\ ctx'[w].currentTaskId = ctx[w].todaysTasks[newIndex + 1]
                          /\ ctx'[w].awaitingResponse = "task_start_prompt"
                          /\ sent'[w] = "task_start_prompt"]_vars

\* a done reply presented the second task, after a start and with the first one done
C15_Witness ==
    /\ hpc[1] = "done"
    /\ hresult[1] = Result(TRUE, "task_done_next_presented")
    /\ ctx[WorkerA].currentTaskIndex = 1
    /\ ctx[WorkerA].currentTaskId = ctx[WorkerA].todaysTasks[2]
    /\ sent[WorkerA] = "task_start_prompt"

C17_StartNeedsCurrentTask ==
    [][\A h \in Handlers :
          LET w   == WorkerOf(h)
              cur == ctx[w].currentTaskId
          IN  NormalizePayload(hreply[h].payload) \in {"comecar agora", "comecar"} =>
                /\ (hpc[h] = "read" /\ hpc'[h] # "read") =>
                      /\ hpc'[h] = "marked"
                      /\ wtasks' = [wtasks EXCEPT ![cur] =
                                       [@ EXCEPT !.status = "in-progress",
                                                 !.acceptedAt = TRUE]]
                      /\ ctx' = ctx
                /\ (hpc[h] = "marked" /\ hpc'[h] = "done") =>
                      /\ wtasks[cur].status = "in-progress" /\ wtasks[cur].acceptedAt
                      /\ wtasks' = wtasks
                      /\ ctx'[w] = [ctx[w] EXCEPT !.awaitingResponse = "completion_check",
                                                  !.lastMessageAt = "reply"]
                      /\ hresult'[h] = Result(TRUE, "task_started")
                /\ (hpc[h] = "start" /\ hpc'[h] # "start") =>
                      IF ctx[w].exists /\ cur # 0
                      THEN hpc'[h] = "read" /\ ctx' = ctx /\ wtasks' = wtasks
                      ELSE /\ hpc'[h] = "done"
                           /\ ~hresult'[h].handled /\ hresult'[h].why # ""
                           /\ ctx' = ctx /\ wtasks' = wtasks /\ sent' = sent]_vars

\* the second task of the list was started
C17_Witness ==
    /\ hpc[1] = "done"
    /\ hresult[1] = Result(TRUE, "task_started")
    /\ ctx[WorkerA].currentTaskIndex = 1
    /\ ctx[WorkerA].awaitingResponse = "completion_check"
    /\ wtasks[ctx[WorkerA].currentTaskId].status = "in-progress"

\* C18: a view-first-task reply for a context with a non-empty list sets
\* currentTaskIndex 0, currentTaskId to the first task of the list and awaitingResponse
\* to task_start_prompt, and sends the start prompt; with an empty list or no context
\* it returns "not handled" with a reason, changes nothing and sends nothing.
C18_ViewFirstTask ==
    [][\A h \in Handlers :
          Finishes(h, {"ver primeira tarefa"}) =>
              LET w == WorkerOf(h)
              IN  IF ctx[w].exists /\ Len(ctx[w].todaysTasks) > 0
                  THEN /\ ctx'[w] = [ctx[w] EXCEPT
                                        !.currentTaskIndex = 0,
                                        !.currentTaskId = ctx[w].todaysTasks[1],
                                        !.awaitingResponse = "task_start_prompt",
                                        !.lastMessageAt = "reply"]
                       /\ sent'[w] = "task_start_prompt"
                       /\ hresult'[h].handled
                       /\ wtasks' = wtasks
                  ELSE /\ ~hresult'[h].handled /\ hresult'[h].why # ""
                       /\ ctx' = ctx /\ sent' = sent /\ wtasks' = wtasks]_vars

\* the worker went back to the first task of two after having moved to the second
C18_Witness ==
    /\ hpc[1] = "done"
    /\ hresult[1] = Result(TRUE, "sent_task_prompt")
    /\ Len(ctx[WorkerA].todaysTasks) = 2
    /\ ctx[WorkerA].currentTaskIndex = 0
    /\ ctx[WorkerA].currentTaskId = ctx[WorkerA].todaysTasks[1]
    /\ hsnap[1].currentTaskIndex = 1

\* C19: a still-working or ok reply writes lastMessageAt and nothing else: the cursor,
\* the list, awaitingResponse and every task stay as they are and no message is sent.
C19_HeartbeatOnly ==
    [][\A h \in Handlers :
          Finishes(h, {"ainda a trabalhar", "ok"}) =>
              LET w == WorkerOf(h)
              IN  /\ wtasks' = wtasks
                  /\ sent' = sent
                  /\ \A v \in Workers : v # w => ctx'[v] = ctx[v]
                  /\ IF ctx[w].exists
                     THEN ctx'[w] = [ctx[w] EXCEPT !.lastMessageAt = "reply"]
                     ELSE ctx'[w] = ctx[w]]_vars

\* a still-working reply was handled while a started task was awaiting its completion
C19_Witness ==
    /\ hpc[1] = "done"
    /\ hresult[1] = Result(TRUE, "acknowledged_still_working")
    /\ ctx[WorkerA].awaitingResponse = "completion_check"
    /\ wtasks[ctx[WorkerA].currentTaskId].status = "in-progress"

\* C20: the run that handles a text that is none of the buttons' ends with a
\* "not handled" result that carries a reason, and leaves every context, every task
\* and the messages sent as they were.
C20_UnknownReplyDiscarded ==
    [][\A h \in Handlers :
          (hpc[h] # "done" /\ hpc'[h] = "done" /\ hreply[h].payload = "Ajuda") =>
              /\ ~hresult'[h].handled
              /\ hresult'[h].why # ""
              /\ ctx' = ctx
              /\ wtasks' = wtasks
              /\ sent' = sent]_vars

\* an unknown text was discarded in the middle of the day's list
C20_Witness ==
    /\ hpc[1] = "done"
    /\ hreply[1].payload = "Ajuda"
    /\ hresult[1] = Result(FALSE, "unknown_payload")
    /\ ctx[WorkerA].currentTaskId # 0
    /\ ctx[WorkerA].lastMessageAt = "reply"

(***************************************************************************)
(* Claims about the daily run.                                             *)
(***************************************************************************)
\* this step is a daily run: no task changes its column
DailyRun == \A t \in WTaskIds : wtasks'[t].status = wtasks[t].status

\* the tasks a list names
ListedIn(list) == {list[i] : i \in DOMAIN list}

\* the worker a task is assigned to, "" when it has no assignee or no phone
ContactOf(t) ==
    IF wtasks[t].assignee = "" \/ wtasks[t].assigneePhone = "" THEN ""
    ELSE CleanPhone(wtasks[t].assigneePhone)

\* C22: a daily run in which no write throws puts every task that is not done and has
\* a worker contact, in-progress tasks included, in the todaysTasks of that worker and
\* of no other, and puts no done task in a list it builds.
C22_CollectsEveryOpenTask ==
    [][DailyRun =>
          /\ \A t \in WTaskIds :
                (/\ wtasks[t].status # "done"
                 /\ ContactOf(t) # ""
                 /\ results'[ContactOf(t)] # "error") =>
                    {w \in Workers : t \in ListedIn(ctx'[w].todaysTasks)} = {ContactOf(t)}
          /\ \A w \in Workers :
                results'[w] \in {"sent", "failed"} =>
                    \A t \in ListedIn(ctx'[w].todaysTasks) : wtasks[t].status # "done"]_vars

C24_DispatchIsolation ==
    [][DailyRun =>
          \A w \in Workers :
              IF TasksOf(w) = {}
              THEN results'[w] = "" /\ ctx'[w] = ctx[w] /\ sent'[w] = sent[w]
              ELSE /\ results'[w] \in {"sent", "failed", "error"}
                   /\ results'[w] \in {"sent", "failed"} =>
                         /\ ctx'[w].exists
                         /\ ctx'[w].lastMessageAt = "dispatch"
                         /\ ListedIn(ctx'[w].todaysTasks) = TasksOf(w)
                   /\ results'[w] = "sent" => sent'[w] = "daily_tasks_summary"
                   /\ results'[w] = "failed" => sent'[w] = sent[w]
                   /\ \A t \in TasksOf(w) :
                         IF results'[w] = "sent"
                         THEN wtasks'[t].notified
                         ELSE wtasks'[t].notified = wtasks[t].notified]_vars

\* the context write threw for one worker while the other got the summary and the stamp
C24_Witness ==
    /\ results[WorkerA] = "error"
    /\ ~ctx[WorkerA].exists
    /\ results[WorkerB] = "sent"
    /\ ctx[WorkerB].exists
    /\ sent[WorkerB] = "daily_tasks_summary"
    /\ \E t \in WTaskIds : ContactOf(t) = WorkerB /\ wtasks[t].notified
    /\ \E t \in WTaskIds : ContactOf(t) = WorkerA /\ ~wtasks[t].notified

\* C25: after a daily run in which no write throws, every context that exists was
\* written by that run: it lists the tasks collected for its worker in that run, the
\* empty list for a worker with none.
C25_EveryContextRewritten ==
    [][(DailyRun /\ \A v \in Workers : results'[v] # "error") =>
          \A w \in Workers :
              ctx'[w].exists =>
                  /\ ListedIn(ctx'[w].todaysTasks) = TasksOf(w)
                  /\ ctx'[w].currentTaskId = 0
                  /\ ctx'[w].awaitingResponse = "null"]_vars

(***************************************************************************)
(* Claims about the cursor and the order of the workflow.                  *)
(***************************************************************************)
\* C26: the cursor never passes the end of the list: currentTaskIndex is at most the
\* length of todaysTasks, also when skip or done is sent again after the list was
\* finished.
C26_CursorBound ==
    \A w \in Workers :
        ctx[w].exists => ctx[w].currentTaskIndex <= Len(ctx[w].todaysTasks)

\* C27: with daily runs and replies handled one after the other, a context with a
\* currentTaskId has its currentTaskIndex inside the list and the task at that index
\* is the current one; a context awaiting task_start_prompt or completion_check has a
\* currentTaskId.
C27_CursorConsistent ==
    \A w \in Workers :
        /\ ctx[w].currentTaskId # 0 =>
              /\ ctx[w].currentTaskIndex < Len(ctx[w].todaysTasks)
              /\ ctx[w].todaysTasks[ctx[w].currentTaskIndex + 1] = ctx[w].currentTaskId
        /\ ctx[w].awaitingResponse \in {"task_start_prompt", "completion_check"} =>
              ctx[w].currentTaskId # 0

\* the second task of a list was presented and started
C27_Witness ==
    /\ hpc[1] = "done"
    /\ Len(ctx[WorkerA].todaysTasks) = 2
    /\ ctx[WorkerA].currentTaskIndex = 1
    /\ ctx[WorkerA].currentTaskId = ctx[WorkerA].todaysTasks[2]
    /\ ctx[WorkerA].awaitingResponse = "completion_check"
    /\ wtasks[ctx[WorkerA].todaysTasks[2]].status = "in-progress"

\* C28: no step of the workflow takes a task out of done, the start reply after a
\* repeated view-first-task included.
C28_DoneStaysDone ==
    [][\A t \in WTaskIds : wtasks[t].status = "done" => wtasks'[t].status = "done"]_vars

\* C29: a done reply marks the current task only when the context awaits
\* completion_check, a start reply only when it awaits task_start_prompt, and no
\* task goes from backlog to done in one step.
C29_StateOrder ==
    [][\A h \in Handlers :
          (hpc[h] = "read" /\ hpc'[h] = "marked") =>
              LET payload == NormalizePayload(hreply[h].payload)
                  c       == ctx[WorkerOf(h)]
              IN  /\ payload = "sim, terminei" => c.awaitingResponse = "completion_check"
                  /\ payload \in {"comecar agora", "comecar"} =>
                        c.awaitingResponse = "task_start_prompt"
                  /\ \A t \in WTaskIds :
                        ~(wtasks[t].status = "backlog" /\ wtasks'[t].status = "done")]_vars

(***************************************************************************)
(* Claim about the whole dialogue.                                         *)
(***************************************************************************)
\* no run of the handler is under way
AtRest == \A h \in Handlers : hpc[h] \in {"idle", "done"}

\* C21: in the dialogue of one daily run followed by view-first-task and then start
\* and done for each task, the tasks are worked in the order of the list: those before
\* the cursor are done (accepted and completed), the one at the cursor is in backlog
\* until it is started and in-progress until it is finished, those after it are
\* untouched; the cursor goes from 0 to the length of the list, the next prompt follows
\* each completion, and at the end currentTaskId is cleared and the last message is
\* all_tasks_complete, which is sent at the end only.
C21_Dialogue ==
    AtRest =>
        \A w \in Workers :
            ctx[w].exists =>
                LET list == ctx[w].todaysTasks
                    idx  == ctx[w].currentTaskIndex
                IN  /\ idx <= Len(list)
                    /\ \A k \in DOMAIN list :
                          IF k <= idx
                          THEN /\ wtasks[list[k]].status = "done"
                               /\ wtasks[list[k]].acceptedAt
                               /\ wtasks[list[k]].completedAt
                          ELSE IF k = idx + 1 /\ ctx[w].awaitingResponse = "completion_check"
                          THEN /\ wtasks[list[k]].status = "in-progress"
                               /\ wtasks[list[k]].acceptedAt
                               /\ ~wtasks[list[k]].completedAt
                          ELSE /\ wtasks[list[k]].status = "backlog"
                               /\ ~wtasks[list[k]].acceptedAt
                               /\ ~wtasks[list[k]].completedAt
                    /\ IF idx = Len(list)
                       THEN /\ ctx[w].currentTaskId = 0
                            /\ ctx[w].awaitingResponse = "null"
                            /\ sent[w] = "all_tasks_complete"
                       ELSE /\ sent[w] # "all_tasks_complete"
                            /\ ctx[w].awaitingResponse # "null" =>
                                  ctx[w].currentTaskId = list[idx + 1]
                            /\ ctx[w].awaitingResponse = "task_start_prompt" =>
                                  sent[w] = "task_start_prompt"
                            /\ ctx[w].awaitingResponse = "null" =>
                                  idx = 0 /\ ctx[w].currentTaskId = 0

\* a worker finished a list of two tasks and got the closing message
C21_Witness ==
    /\ AtRest
    /\ ctx[WorkerA].todaysTasks = <<2, 1>>
    /\ ctx[WorkerA].currentTaskIndex = 2
    /\ ctx[WorkerA].currentTaskId = 0
    /\ sent[WorkerA] = "all_tasks_complete"
    /\ \A t \in WTaskIds : wtasks[t].status = "done" /\ wtasks[t].completedAt

====
